---- MODULE Spec2Model ----
(***************************************************************************)
(* PHYLIP codec of skbio/io/format/phylip.py: sniffer, header parser,      *)
(* identifier strategies, lazy record decoder, Nth-sequence reader and the *)
(* Alignment writer.  Text is a sequence of one-character strings.         *)
(***************************************************************************)
EXTENDS Integers, Sequences, FiniteSets, TLC

VARIABLES obj, fh, pc, enc, data_parser, reader, seq_num, lineno, header,
          records, result, sniff, last

vars == <<obj, fh, pc, enc, data_parser, reader, seq_num, lineno, header,
          records, result, sniff, last>>

(* ------------------------------ bounds --------------------------------- *)
MaxSeqs == 2        \* sequences in an alignment handed to the writer
MaxResLen == 21     \* residues per sequence
MaxLines == 2       \* record lines of a hand-made input stream
MaxSeqNum == 3      \* seq_num values given to the single-sequence readers

(* ------------------------------ text ----------------------------------- *)
whitespace == {" ", "\t", "\n", "\r", "\f"}

digits == <<"0", "1", "2", "3", "4", "5", "6", "7", "8", "9">>

Spaces(n) == [i \in 1..n |-> " "]

Drop(s, n) == IF n >= Len(s) THEN <<>> ELSE SubSeq(s, n + 1, Len(s))

Take(s, n) == IF n >= Len(s) THEN s ELSE SubSeq(s, 1, n)

RECURSIVE translate(_)
translate(s) ==
    IF s = <<>> THEN <<>>
    ELSE IF Head(s) \in whitespace THEN translate(Tail(s))
    ELSE <<Head(s)>> \o translate(Tail(s))

\* str.find: 0-based index of the first occurrence of c, -1 when absent
find(line, c) ==
    IF \E i \in 1..Len(line) : line[i] = c
    THEN (CHOOSE i \in 1..Len(line) :
              line[i] = c /\ \A j \in 1..(i - 1) : line[j] # c) - 1
    ELSE -1

Min(S) == CHOOSE x \in S : \A y \in S : x <= y

\* str.split(): the maximal runs of non-whitespace characters
RECURSIVE split(_)
split(s) ==
    IF s = <<>> THEN <<>>
    ELSE IF Head(s) \in whitespace THEN split(Tail(s))
    ELSE LET n == IF \E i \in 1..Len(s) : s[i] \in whitespace
                  THEN Min({i \in 1..Len(s) : s[i] \in whitespace}) - 1
                  ELSE Len(s)
         IN  <<Take(s, n)>> \o split(Drop(s, n))

DigitVal(c) == (CHOOSE i \in 1..10 : digits[i] = c) - 1

IsDigits(s) == s # <<>> /\ \A i \in 1..Len(s) : \E d \in 1..10 : digits[d] = s[i]

RECURSIVE DigitsVal(_)
DigitsVal(s) ==
    IF s = <<>> THEN 0
    ELSE 10 * DigitsVal(Take(s, Len(s) - 1)) + DigitVal(s[Len(s)])

\* int(token): an optional sign followed by decimal digits
IsInt(tok) ==
    IF tok # <<>> /\ Head(tok) \in {"+", "-"} THEN IsDigits(Tail(tok))
    ELSE IsDigits(tok)

int(tok) ==
    IF Head(tok) = "-" THEN 0 - DigitsVal(Tail(tok))
    ELSE IF Head(tok) = "+" THEN DigitsVal(Tail(tok))
    ELSE DigitsVal(tok)

\* '{0:d}'.format(n)
RECURSIVE format_d(_)
format_d(n) ==
    IF n < 0 THEN <<"-">> \o format_d(0 - n)
    ELSE IF n < 10 THEN <<digits[n + 1]>>
    ELSE format_d(n \div 10) \o <<digits[(n % 10) + 1]>>

\* mutant: the identifier is right-justified in its field
format_width_right(s, width) ==
    IF Len(s) >= width THEN s ELSE Spaces(width - Len(s)) \o s

\* '{0:10}'.format(s): left-justified in a field of at least width characters
format_width(s, width) ==
    IF Len(s) >= width THEN s ELSE s \o Spaces(width - Len(s))

(* ------------------------------ header --------------------------------- *)
FormatError(msg) == [status |-> "PhylipFormatError", msg |-> msg]

\* mutant: only a header with fewer than two tokens is rejected
_parse_phylip_header_atleast2(line, raise_exc) ==
    LET parts == split(line) IN
    IF Len(parts) < 2
    THEN IF raise_exc THEN FormatError("header: expected two integers")
         ELSE [status |-> "None"]
    ELSE IF IsInt(parts[1]) /\ IsInt(parts[2])
    THEN [status |-> "ok", num_seq |-> int(parts[1]), seq_len |-> int(parts[2])]
    ELSE IF raise_exc THEN FormatError("header: values are not integers")
         ELSE [status |-> "None"]

_parse_phylip_header(line, raise_exc) ==
    LET parts == split(line) IN
    IF Len(parts) # 2
    THEN IF raise_exc THEN FormatError("header: expected two integers")
         ELSE [status |-> "None"]
    ELSE IF IsInt(parts[1]) /\ IsInt(parts[2])
    THEN [status |-> "ok", num_seq |-> int(parts[1]), seq_len |-> int(parts[2])]
    ELSE IF raise_exc THEN FormatError("header: values are not integers")
         ELSE [status |-> "None"]

(* ------------------------ identifier strategies ------------------------ *)
relaxed_ids(line) ==
    LET cands == {find(line, c) : c \in {d \in whitespace : find(line, d) > 0}} IN
    IF cands = {} THEN [status |-> "ValueError"]
    ELSE LET pos == Min(cands) IN
         [status |-> "ok", sequence |-> translate(Drop(line, pos)),
          id_ |-> Take(line, pos)]

id_length == 10

RECURSIVE rstrip(_)
rstrip(s) ==
    IF s # <<>> /\ s[Len(s)] \in whitespace THEN rstrip(Take(s, Len(s) - 1))
    ELSE s

\* mutant: the padding is stripped from the identifier
strict_ids_stripped(line) ==
    [status |-> "ok", sequence |-> translate(Drop(line, id_length)),
     id_ |-> rstrip(Take(line, id_length))]

strict_ids(line) ==
    [status |-> "ok", sequence |-> translate(Drop(line, id_length)),
     id_ |-> Take(line, id_length)]

parse_line(parser, line) ==
    IF parser = "strict_ids" THEN strict_ids(line) ELSE relaxed_ids(line)

(* ----------------------------- line source ----------------------------- *)
\* iteration over the text stream: one item per line, terminator included
RECURSIVE file_lines(_)
file_lines(text) ==
    IF text = <<>> THEN <<>>
    ELSE IF \E i \in 1..Len(text) : text[i] = "\n"
    THEN LET n == Min({i \in 1..Len(text) : text[i] = "\n"}) IN
         <<Take(text, n)>> \o file_lines(Drop(text, n))
    ELSE <<text>>

RECURSIVE strip_terminator(_)
strip_terminator(line) ==
    IF line # <<>> /\ line[Len(line)] \in {"\n", "\r"}
    THEN strip_terminator(Take(line, Len(line) - 1))
    ELSE line

is_blank(line) == translate(line) = <<>>

RECURSIVE keep_lines(_, _)
keep_lines(ls, skip_blanks) ==
    IF ls = <<>> THEN <<>>
    ELSE LET line == strip_terminator(Head(ls)) IN
         IF skip_blanks /\ is_blank(line) THEN keep_lines(Tail(ls), skip_blanks)
         ELSE <<line>> \o keep_lines(Tail(ls), skip_blanks)

_line_generator(text, skip_blanks) == keep_lines(file_lines(text), skip_blanks)

(* ------------------------------ alignment ------------------------------ *)
is_empty(o) == Len(o) = 0

sequence_count(o) == Len(o)

sequence_length(o) == IF Len(o) = 0 THEN 0 ELSE Len(o[1].seq)

ids(o) == [i \in 1..Len(o) |-> o[i].id]

(* ------------------------------- writer -------------------------------- *)
chunk_size == 10

RECURSIVE chunk_str(_, _, _)
chunk_str(s, n, char) ==
    IF Len(s) <= n THEN s
    ELSE Take(s, n) \o char \o chunk_str(Drop(s, n), n, char)

\* mutant: the two integers are written in fields, as in the original format
header_line_padded(o) ==
    <<" ">> \o format_d(sequence_count(o)) \o <<" ", " ">>
        \o format_d(sequence_length(o)) \o <<"\n">>

\* mutant: the header is written without its line terminator
header_line_unterminated(o) ==
    format_d(sequence_count(o)) \o <<" ">> \o format_d(sequence_length(o))

header_line(o) ==
    format_d(sequence_count(o)) \o <<" ">> \o format_d(sequence_length(o))
        \o <<"\n">>

\* mutant: the chunk separator is passed as two spaces
record_line_wide(s) ==
    format_width(s.id, chunk_size)
        \o chunk_str(s.seq, chunk_size, <<" ", " ">>) \o <<"\n">>

record_line(s) ==
    format_width(s.id, chunk_size) \o chunk_str(s.seq, chunk_size, <<" ">>)
        \o <<"\n">>

RECURSIVE record_lines(_)
record_lines(o) ==
    IF o = <<>> THEN <<>> ELSE record_line(Head(o)) \o record_lines(Tail(o))

WriteError(msg, text) ==
    [status |-> "PhylipFormatError", msg |-> msg, fh |-> text, writes |-> 0]

\* mutant: the header is written before the identifiers are checked
_alignment_to_phylip_early(o, text) ==
    IF is_empty(o) THEN WriteError("no sequence in the alignment", text)
    ELSE IF sequence_length(o) = 0
    THEN WriteError("no position in the alignment", text)
    ELSE IF \E i \in 1..Len(o) : Len(ids(o)[i]) > chunk_size
    THEN [status |-> "PhylipFormatError",
          msg |-> "sequence ID exceeds the limit",
          fh |-> text \o header_line(o), writes |-> 1]
    ELSE [status |-> "ok", msg |-> "",
          fh |-> text \o header_line(o) \o record_lines(o),
          writes |-> 1 + sequence_count(o)]

_alignment_to_phylip(o, text) ==
    IF is_empty(o) THEN WriteError("no sequence in the alignment", text)
    ELSE IF sequence_length(o) = 0
    THEN WriteError("no position in the alignment", text)
    ELSE IF \E i \in 1..Len(o) : Len(ids(o)[i]) > chunk_size
    THEN WriteError("sequence ID exceeds the limit", text)
    ELSE [status |-> "ok", msg |-> "",
          fh |-> text \o header_line(o) \o record_lines(o),
          writes |-> 1 + sequence_count(o)]

(* ------------------------------- sniffer ------------------------------- *)
\* mutant: the second line is validated against the header's length
_phylip_sniffer_validating(text) ==
    LET ls == _line_generator(text, FALSE) IN
    IF Len(ls) = 0 THEN [match |-> FALSE, lines_read |-> 0]
    ELSE IF _parse_phylip_header(ls[1], TRUE).status # "ok"
    THEN [match |-> FALSE, lines_read |-> 1]
    ELSE IF Len(ls) < 2 THEN [match |-> FALSE, lines_read |-> 1]
    ELSE IF Len(strict_ids(ls[2]).sequence)
                # _parse_phylip_header(ls[1], TRUE).seq_len
    THEN [match |-> FALSE, lines_read |-> 2]
    ELSE [match |-> TRUE, lines_read |-> 2]

_phylip_sniffer(text) ==
    LET ls == _line_generator(text, FALSE) IN
    IF Len(ls) = 0 THEN [match |-> FALSE, lines_read |-> 0]
    ELSE IF _parse_phylip_header(ls[1], TRUE).status # "ok"
    THEN [match |-> FALSE, lines_read |-> 1]
    ELSE IF Len(ls) < 2 THEN [match |-> FALSE, lines_read |-> 1]
    ELSE [match |-> TRUE, lines_read |-> 2]

(* ------------------------------- decoder ------------------------------- *)
\* mutant: a line longer than the header's length is yielded too
_parse_phylip_raw_line_atleast(parser, line, seq_len) ==
    LET parsed == parse_line(parser, line) IN
    IF parsed.status # "ok" THEN [status |-> "ValueError"]
    ELSE IF Len(parsed.sequence) >= seq_len
    THEN [status |-> "yield", item |-> <<parsed.sequence, parsed.id_>>]
    ELSE [status |-> "skip"]

\* mutant: every line is yielded, whatever its length
_parse_phylip_raw_line_nocheck(parser, line, seq_len) ==
    LET parsed == parse_line(parser, line) IN
    IF parsed.status # "ok" THEN [status |-> "ValueError"]
    ELSE [status |-> "yield", item |-> <<parsed.sequence, parsed.id_>>]

\* one pass of the loop body of _parse_phylip_raw over a record line
_parse_phylip_raw_line(parser, line, seq_len) ==
    LET parsed == parse_line(parser, line) IN
    IF parsed.status # "ok" THEN [status |-> "ValueError"]
    ELSE IF Len(parsed.sequence) = seq_len
    THEN [status |-> "yield", item |-> <<parsed.sequence, parsed.id_>>]
    ELSE [status |-> "skip"]

\* _get_nth_sequence: the stream ended before the seq_num-th record
end_of_records(rdr) ==
    IF rdr = "_phylip_to_generator" THEN [status |-> "ok"]
    ELSE FormatError("requested sequence index out of range")

\* _get_nth_sequence: stop at the seq_num-th record
nth_reached(rdr, n, count) == rdr = "_phylip_to_sequence" /\ count = n

(* ------------------------------- inputs -------------------------------- *)
Bases == <<"A", "C", "G", "T", "-">>

\* the residues of the k-th sequence of an alignment with n columns
Residues(k, n) == [i \in 1..n |-> Bases[((i + k) % 5) + 1]]

IdChoices ==
    << <<>>,
       <<"a">>,
       <<"a", " ", "b">>,
       <<"s", "e", "q", "1">>,
       <<"s", "e", "q", "u", "e", "n", "c", "e", "-", "2">>,
       <<"l", "o", "n", "g", "-", "s", "e", "q", "-", "i", "d">> >>

\* tuples of pairwise different indices into IdChoices
IdTuples ==
    UNION {{t \in [1..n -> 1..Len(IdChoices)] :
                \A i, j \in 1..n : i # j => t[i] # t[j]} : n \in 0..MaxSeqs}

Alignments ==
    {[k \in 1..Len(t) |-> [id |-> IdChoices[t[k]], seq |-> Residues(k, n)]] :
        t \in IdTuples, n \in 0..MaxResLen}

HeaderChoices ==
    { <<>>,
      <<"5">>,
      <<"2", " ", "5">>,
      <<" ", " ", "2", "\t", "5", " ">>,
      <<"2", " ", "5", " ", "1">>,
      <<"a", " ", "5">>,
      <<"2", " ", "5", ".", "0">>,
      <<"0", " ", "5">>,
      <<"-", "1", " ", "3">>,
      <<"1", " ", "5">> }

BodyChoices ==
    << <<"a">> \o Spaces(9) \o <<"A", "C", "C", "G", "T">>,
       <<"b">> \o Spaces(9) \o <<"A", "C", "C", "G", "T", "T", "T">>,
       <<"c">> \o Spaces(9) \o <<"A", "C", " ", "C", "G", "T">>,
       <<"s", "e", "q", " ", "A", "C", "C", "G", "T">>,
       <<"n", "o", "d", "e", "l", "i", "m">>,
       <<"2", " ", "5">>,
       <<>>,
       <<" ", "x", " ", "A", "C", "C", "G", "T">>,
       <<"d", "\t", "e">> \o Spaces(7)
           \o <<"A", "C", "\t", "C", "G", " ", "T", " ">> >>

RECURSIVE join_lines(_)
join_lines(ls) ==
    IF ls = <<>> THEN <<>> ELSE Head(ls) \o <<"\n">> \o join_lines(Tail(ls))

Bodies ==
    UNION {{[k \in 1..n |-> BodyChoices[t[k]]] :
                t \in [1..n -> 1..Len(BodyChoices)]} : n \in 0..MaxLines}

InputStreams ==
    {<<>>} \cup {join_lines(<<h>> \o b) : h \in HeaderChoices, b \in Bodies}

Parsers == {"strict_ids", "relaxed_ids"}

Readers == {"_phylip_to_generator", "_phylip_to_sequence"}

(* ------------------------------- machine ------------------------------- *)
None == [status |-> "none"]

Init ==
    /\ \/ pc = "write" /\ obj \in Alignments /\ fh = <<>>
       \/ pc = "idle" /\ obj = <<>> /\ fh \in InputStreams
    /\ enc = None
    /\ data_parser = "strict_ids"
    /\ reader = "_phylip_to_generator"
    /\ seq_num = 1
    /\ lineno = 0
    /\ header = None
    /\ records = <<>>
    /\ result = None
    /\ sniff = None
    /\ last = None

\* Alignment.write(fh, format='phylip')
Write ==
    /\ pc = "write"
    /\ LET w == _alignment_to_phylip(obj, fh) IN
       /\ enc' = [status |-> w.status, msg |-> w.msg, writes |-> w.writes]
       /\ fh' = w.fh
    /\ pc' = "idle"
    /\ UNCHANGED <<obj, data_parser, reader, seq_num, lineno, header, records,
                   result, sniff, last>>

Sniff ==
    /\ pc = "idle"
    /\ LET r == _phylip_sniffer(fh) IN
       sniff' = [status |-> "done", match |-> r.match,
                 lines_read |-> r.lines_read]
    /\ pc' = "done"
    /\ UNCHANGED <<obj, fh, enc, data_parser, reader, seq_num, lineno, header,
                   records, result, last>>

\* the lines the decoder iterates over
phylip_iter == _line_generator(fh, TRUE)

\* mutant: the loop also ends once num_seq records have been yielded
loop_exhausted_counted ==
    lineno = Len(phylip_iter) \/ Len(records) >= header.num_seq

\* `for line in phylip_iter` has no next line
loop_exhausted == lineno = Len(phylip_iter)

\* first pull on the record stream: header = next(phylip_iter), then the parse
ReadHeader ==
    /\ pc = "idle"
    /\ \E p \in Parsers, r \in Readers, n \in 1..MaxSeqNum :
        /\ r = "_phylip_to_generator" => n = 1
        /\ data_parser' = p
        /\ reader' = r
        /\ seq_num' = n
        /\ IF Len(phylip_iter) = 0
           THEN \* StopIteration inside the generator body: the generator ends
                \* silently, or (PEP 479) the interpreter raises RuntimeError
                /\ \E o \in {end_of_records(r), [status |-> "RuntimeError"]} :
                       result' = o
                /\ pc' = "done"
                /\ UNCHANGED <<lineno, header>>
           ELSE LET h == _parse_phylip_header(phylip_iter[1], TRUE) IN
                /\ lineno' = 1
                /\ IF h.status = "ok"
                   THEN header' = h /\ pc' = "lines" /\ UNCHANGED result
                   ELSE result' = h /\ pc' = "done" /\ UNCHANGED header
    /\ UNCHANGED <<obj, fh, enc, records, sniff, last>>

\* one iteration of `for line in phylip_iter`
ReadLine ==
    /\ pc = "lines"
    /\ ~loop_exhausted
    /\ LET p == parse_line(data_parser, phylip_iter[lineno + 1]) IN
       last' = IF p.status = "ok"
               THEN [status |-> "ok", line |-> phylip_iter[lineno + 1],
                     sequence |-> p.sequence, id_ |-> p.id_]
               ELSE [status |-> p.status, line |-> phylip_iter[lineno + 1]]
    /\ LET step == _parse_phylip_raw_line(data_parser, phylip_iter[lineno + 1],
                                          header.seq_len) IN
       IF step.status = "ValueError"
       THEN /\ result' = [status |-> "ValueError"]
            /\ pc' = "done"
            /\ UNCHANGED <<lineno, records>>
       ELSE /\ lineno' = lineno + 1
            /\ IF step.status = "yield"
               THEN /\ records' = Append(records, step.item)
                    /\ IF nth_reached(reader, seq_num, Len(records) + 1)
                       THEN result' = [status |-> "ok", value |-> step.item]
                            /\ pc' = "done"
                       ELSE UNCHANGED <<result, pc>>
               ELSE UNCHANGED <<records, result, pc>>
    /\ UNCHANGED <<obj, fh, enc, data_parser, reader, seq_num, header, sniff>>

\* the line source is exhausted
ReadEnd ==
    /\ pc = "lines"
    /\ loop_exhausted
    /\ result' = end_of_records(reader)
    /\ pc' = "done"
    /\ UNCHANGED <<obj, fh, enc, data_parser, reader, seq_num, lineno, header,
                   records, sniff, last>>

Next == Write \/ Sniff \/ ReadHeader \/ ReadLine \/ ReadEnd

Spec == Init /\ [][Next]_vars

(* ------------------------- reference definitions ----------------------- *)
written_ok == enc.status = "ok"

decode_started == header.status = "ok" \/ result.status # "none"

\* the (residues, identifier) pairs of an alignment, in iteration order
pairs_of(o) == [k \in 1..Len(o) |-> <<o[k].seq, o[k].id>>]

\* a header line the format does not allow: not exactly two integer tokens
bad_header(line) ==
    LET parts == split(line) IN
    IF Len(parts) = 2 THEN ~(IsInt(parts[1]) /\ IsInt(parts[2])) ELSE TRUE

first_line == strip_terminator(file_lines(fh)[1])

\* the records of the lines ls up to the first line the strategy fails on
RECURSIVE stream_records(_, _, _)
stream_records(parser, ls, seq_len) ==
    IF ls = <<>> THEN [items |-> <<>>, failed |-> FALSE]
    ELSE LET p == parse_line(parser, Head(ls)) IN
         IF p.status # "ok" THEN [items |-> <<>>, failed |-> TRUE]
         ELSE LET rest == stream_records(parser, Tail(ls), seq_len) IN
              IF Len(p.sequence) = seq_len
              THEN [items |-> <<<<p.sequence, p.id_>>>> \o rest.items,
                    failed |-> rest.failed]
              ELSE rest

consumed_lines == SubSeq(phylip_iter, 2, lineno)

(* ------------------------------- claims -------------------------------- *)
\* C1: decoding the writer's output with strict_ids through the record
\* stream gives back the alignment's (identifier, residues) pairs, in order.
C1_RoundTrip ==
    (written_ok /\ pc = "done" /\ data_parser = "strict_ids"
        /\ reader = "_phylip_to_generator" /\ result.status # "none")
    => (result.status = "ok" /\ records = pairs_of(obj))

C3_MismatchedLengthSkip ==
    header.status = "ok" =>
        /\ records = stream_records(data_parser, consumed_lines,
                                    header.seq_len).items
        /\ ~stream_records(data_parser, consumed_lines, header.seq_len).failed
        /\ result.status = "ValueError"
               => parse_line(data_parser, phylip_iter[lineno + 1]).status # "ok"
        /\ result.status = "PhylipFormatError"
               => (reader = "_phylip_to_sequence" /\ lineno = Len(phylip_iter))
        /\ (result.status = "ok" /\ reader = "_phylip_to_generator")
               => lineno = Len(phylip_iter)

C3_Witness ==
    /\ pc = "done"
    /\ result.status = "ok"
    /\ reader = "_phylip_to_generator"
    /\ data_parser = "strict_ids"
    /\ header.status = "ok"
    /\ header.seq_len = 5
    /\ phylip_iter = <<<<"2", " ", "5">>, BodyChoices[2], BodyChoices[1]>>
    /\ records = <<<<<<"A", "C", "C", "G", "T">>, <<"a">> \o Spaces(9)>>>>

\* C4: a write that fails leaves the stream as it was and has made no write.
C4_NoOutputOnFailure ==
    [][(pc = "write" /\ enc'.status = "PhylipFormatError")
          => (fh' = fh /\ enc'.writes = 0)]_vars

C4_Witness ==
    /\ enc.status = "PhylipFormatError"
    /\ Len(obj) = 2
    /\ Len(obj[1].id) <= chunk_size
    /\ Len(obj[2].id) = 11
    /\ Len(obj[2].seq) > 0
    /\ fh = <<>>

\* C5: every record line starts with the identifier, filled with spaces up to
\* exactly 10 characters, and the residues start at the 11th character.
C5_IdentifierField ==
    written_ok =>
        \A k \in 1..Len(obj) :
            LET line == file_lines(fh)[k + 1] IN
            /\ Len(line) >= 11
            /\ Take(line, Len(obj[k].id)) = obj[k].id
            /\ \A i \in (Len(obj[k].id) + 1)..10 : line[i] = " "
            /\ line[11] = obj[k].seq[1]

C5_Witness ==
    /\ written_ok
    /\ \E k \in 1..Len(obj) : Len(obj[k].id) = 0
    /\ \E k \in 1..Len(obj) : Len(obj[k].id) = 10

\* C6: the residues of a record line are ceil(L/10) chunks on one line, all
\* of 10 characters but the last, which has 1 to 10, with exactly one space
\* between consecutive chunks; the chunks put together are the residues.
C6_Chunking ==
    written_ok =>
        \A k \in 1..Len(obj) :
            LET line == file_lines(fh)[k + 1]
                text == SubSeq(line, 11, Len(line) - 1)
                L == Len(obj[k].seq)
                n == (L + 9) \div 10
            IN  /\ line[Len(line)] = "\n"
                /\ Len(text) = L + n - 1
                /\ \A j \in 1..(n - 1) : text[11 * j] = " "
                /\ \A i \in 1..L :
                       text[i + ((i - 1) \div 10)] = obj[k].seq[i]
                /\ \A i \in 1..Len(text) : text[i] # "\n"

C6_Witness ==
    /\ written_ok
    /\ Len(obj) = 2
    /\ Len(obj[1].seq) = 16
    /\ Len(file_lines(fh)[2]) = 10 + 10 + 1 + 6 + 1

C8_OutputLayout ==
    written_ok =>
        LET ls == file_lines(fh)
            head == strip_terminator(ls[1])
            parts == split(head)
        IN  /\ Len(ls) = sequence_count(obj) + 1
            /\ enc.writes = sequence_count(obj) + 1
            /\ \A i \in 1..Len(ls) : ls[i][Len(ls[i])] = "\n"
            /\ Len(parts) = 2
            /\ IsDigits(parts[1]) /\ IsDigits(parts[2])
            /\ int(parts[1]) = sequence_count(obj)
            /\ int(parts[2]) = sequence_length(obj)
            /\ head = parts[1] \o <<" ">> \o parts[2]
            /\ \A k \in 1..Len(obj) :
                   /\ Take(ls[k + 1], Len(obj[k].id)) = obj[k].id
                   /\ translate(Drop(ls[k + 1], 10)) = obj[k].seq

C8_Witness ==
    /\ written_ok
    /\ Len(obj) = 2
    /\ Len(obj[1].seq) = 10
    /\ Len(file_lines(fh)) = 3

\* C9: with a parsed header, the single-sequence reader returns the
\* seq_num-th record of the record stream, and fails with "requested
\* sequence index out of range" when the stream ends with fewer records.
C9_NthSequence ==
    (reader = "_phylip_to_sequence" /\ pc = "done" /\ header.status = "ok")
    => LET all == stream_records(data_parser, Tail(phylip_iter),
                                 header.seq_len) IN
       IF Len(all.items) >= seq_num
       THEN result = [status |-> "ok", value |-> all.items[seq_num]]
       ELSE IF all.failed THEN result.status = "ValueError"
       ELSE result = FormatError("requested sequence index out of range")

C9_Witness ==
    /\ reader = "_phylip_to_sequence"
    /\ pc = "done"
    /\ seq_num = 1
    /\ result.status = "ok"
    /\ lineno = 3
    /\ Len(phylip_iter) = 3
    /\ ~written_ok

\* C10: every header the parser returns has a positive sequence count and a
\* positive sequence length.
C10_PositiveHeader ==
    /\ header.status = "ok" => (header.num_seq > 0 /\ header.seq_len > 0)
    /\ (sniff.status = "done" /\ sniff.match)
           => LET h == _parse_phylip_header(first_line, FALSE) IN
              h.num_seq > 0 /\ h.seq_len > 0

\* the positions from..Len(line) of line that hold no whitespace character
kept_positions(line, from) ==
    {i \in from..Len(line) : line[i] \notin whitespace}

\* text is line[from..] with every whitespace character removed
is_squeezed(text, line, from) ==
    LET K == kept_positions(line, from) IN
    /\ Len(text) = Cardinality(K)
    /\ \A i \in K : text[Cardinality({j \in K : j <= i})] = line[i]

\* C11: strict_ids never fails; its identifier is the first 10 characters of
\* the line (the whole line when shorter), spaces included, and its residues
\* are the rest of the line without any whitespace character.
C11_StrictIds ==
    (data_parser = "strict_ids" /\ last.status # "none")
    => /\ last.status = "ok"
       /\ Len(last.id_) = (IF Len(last.line) < 10 THEN Len(last.line) ELSE 10)
       /\ \A i \in 1..Len(last.id_) : last.id_[i] = last.line[i]
       /\ is_squeezed(last.sequence, last.line, 11)

C11_Witness ==
    /\ data_parser = "strict_ids"
    /\ last.status = "ok"
    /\ last.line = BodyChoices[9]
    /\ last.id_ = <<"d", "\t", "e">> \o Spaces(7)
    /\ last.sequence = <<"A", "C", "C", "G", "T">>

\* the 1-based positions after the first that hold a whitespace character
delimiter_positions(line) == {i \in 2..Len(line) : line[i] \in whitespace}

\* C12: for a line with a whitespace character after its first character,
\* relaxed_ids splits at the first such character, also when the line starts
\* with whitespace: the identifier is the text before it and the residues are
\* the text from it on, without whitespace.
C12_RelaxedIds ==
    (data_parser = "relaxed_ids" /\ last.status # "none"
        /\ delimiter_positions(last.line) # {})
    => LET p == Min(delimiter_positions(last.line)) IN
       /\ last.status = "ok"
       /\ last.id_ = SubSeq(last.line, 1, p - 1)
       /\ is_squeezed(last.sequence, last.line, p)

\* C13: the record stream ends when the line source does and never looks at
\* the header's sequence_count: with more or with fewer matching lines than
\* sequence_count it ends without error, having yielded each of them in order.
C13_NoRowCountBound ==
    (reader = "_phylip_to_generator" /\ pc = "done" /\ header.status = "ok")
    => LET all == stream_records(data_parser, Tail(phylip_iter),
                                 header.seq_len) IN
       ~all.failed
           => /\ result = [status |-> "ok"]
              /\ records = all.items
              /\ lineno = Len(phylip_iter)

C13_Witness ==
    /\ reader = "_phylip_to_generator"
    /\ pc = "done"
    /\ header.status = "ok"
    /\ header.num_seq = 1
    /\ result.status = "ok"
    /\ Len(records) = 2

\* C14: the sniffer answers True on the output of every successful write.
C14_EncodeThenSniff ==
    (written_ok /\ sniff.status = "done") => sniff.match

C14_Witness ==
    /\ written_ok
    /\ sniff.status = "done"
    /\ sniff.match
    /\ Len(obj) = 1
    /\ obj[1].id = <<>>
    /\ Len(file_lines(fh)) = 2

====
